---------------------------- MODULE Spec2Model ----------------------------
(***************************************************************************)
(* A model of the Lazarus Vault command line tool (rustcli/src/main.rs):   *)
(* the four commands encrypt-and-store, decrypt, hash-audit and sign-audit *)
(* with the helpers they call.                                             *)
(*                                                                         *)
(* Text is a sequence of one-character strings, a byte an integer 0..255.  *)
(* Three specifications share the variables:                               *)
(*   Spec      the vault commands against a blob service                   *)
(*   SpecKey   encode_decryption_key / decode_decryption_key               *)
(*   SpecAudit hash_audit / sign_audit                                     *)
(***************************************************************************)
EXTENDS Integers, Sequences, FiniteSets, TLC

VARIABLES
    \* ---- vault commands (Spec)
    pc,         \* position of the running command
    cmd,        \* the command line of the running invocation
    plaintext,  \* encrypt: bytes read from the file; decrypt: decrypted bytes
    keyNonce,   \* <<key, nonce>> in use by the running invocation
    ciphertext, \* encrypt: output of encrypt_data; decrypt: downloaded bytes
    reqs,       \* requests this invocation has sent to the blob service
    lastErr,    \* download loop: last_err
    exit,       \* "running", "ok" or the error the invocation ended with
    stdout,     \* success output printed by this invocation (<<>>: none)
    outFile,    \* content written to --output by this invocation
    store,      \* the blob service: sequence of stored blobs, id = index
    reported,   \* every EncryptionOutput printed so far, with its plaintext
    genuine,    \* decrypt: the downloaded bytes are those the service stores
    blobId,     \* encrypt: blob_id returned by upload_to_walrus (0: none yet)
    \* ---- key material (SpecKey)
    kmPc, kmKey, kmNonce, kmStr, kmRes,
    \* ---- audit commands (SpecAudit)
    auPc, auArgs, auOut

vaultVars == <<pc, cmd, plaintext, keyNonce, ciphertext, reqs, lastErr, exit,
               stdout, outFile, store, reported, genuine, blobId>>
kmVars    == <<kmPc, kmKey, kmNonce, kmStr, kmRes>>
auVars    == <<auPc, auArgs, auOut>>
vars      == <<vaultVars, kmVars, auVars>>

\* Each specification leaves the variables of the other two alone.
VaultOnly == UNCHANGED <<kmVars, auVars>>
KeyOnly   == UNCHANGED <<vaultVars, auVars>>
AuditOnly == UNCHANGED <<vaultVars, kmVars>>

---------------------------------------------------------------------------
(* Bounds of the model.                                                    *)

NumKeys     == 2   \* keys (and signing seeds) the random source can produce
NumNonces   == 2   \* nonces the random source can produce
MaxShortLen == 3   \* longest arbitrary key-material string tried
MaxPlainLen == 2   \* longest file
MaxBlobs    == 1   \* blobs the service stores before it answers 507
MaxTagsLen  == 4   \* longest --tags argument
MaxHashLen  == 4   \* longest --record-hash argument

(* Program constants.                                                      *)

KeyLen         == 32
NonceLen       == 12
KeyMaterialLen == 44
TagLen         == 16
SeedLen        == 32

---------------------------------------------------------------------------
(* Generic sequence helpers.                                               *)

RECURSIVE Flatten(_)
Flatten(ss) == IF ss = <<>> THEN <<>> ELSE Head(ss) \o Flatten(Tail(ss))

\* Sum of f[lo..hi], by halves (the recursion stays shallow).
RECURSIVE SumRange(_, _, _)
SumRange(f, lo, hi) ==
    IF lo > hi THEN 0
    ELSE IF lo = hi THEN f[lo]
    ELSE LET mid == (lo + hi) \div 2
         IN  SumRange(f, lo, mid) + SumRange(f, mid + 1, hi)

SumSeq(s) == SumRange(s, 1, Len(s))

\* Sum of i * s[i].
WeightedSum(s) == SumRange([i \in 1..Len(s) |-> i * s[i]], 1, Len(s))

Range(s) == { s[i] : i \in 1..Len(s) }

RECURSIVE SeqsUpTo(_, _)
SeqsUpTo(S, n) ==
    IF n = 0 THEN { <<>> }
    ELSE LET shorter == SeqsUpTo(S, n - 1)
         IN  shorter \cup { Append(s, c) : s \in { t \in shorter : Len(t) = n - 1 }, c \in S }

---------------------------------------------------------------------------
(* The hex crate: hex::encode and hex::decode.                             *)

HexLower == <<"0","1","2","3","4","5","6","7","8","9","a","b","c","d","e","f">>
HexUpper == <<"0","1","2","3","4","5","6","7","8","9","A","B","C","D","E","F">>

IsHexChar(c) == \E i \in 1..16 : HexLower[i] = c \/ HexUpper[i] = c

HexVal(c) == (CHOOSE i \in 1..16 : HexLower[i] = c \/ HexUpper[i] = c) - 1

\* hex::encode: two lower-case digits per byte, high nibble first.
HexEncode(bytes) ==
    [k \in 1..(2 * Len(bytes)) |->
        IF k % 2 = 1 THEN HexLower[(bytes[(k + 1) \div 2] \div 16) + 1]
        ELSE HexLower[(bytes[k \div 2] % 16) + 1]]

\* hex::decode: Err on odd length or on a character outside 0-9a-fA-F.
HexDecode(s) ==
    IF Len(s) % 2 # 0 THEN [ok |-> FALSE, bytes |-> <<>>]
    ELSE IF \E i \in 1..Len(s) : ~IsHexChar(s[i]) THEN [ok |-> FALSE, bytes |-> <<>>]
    ELSE [ok |-> TRUE,
          bytes |-> [i \in 1..(Len(s) \div 2) |->
                        16 * HexVal(s[2 * i - 1]) + HexVal(s[2 * i])]]

\* str::trim_start_matches("0x"): every leading repetition of "0x" is removed.
RECURSIVE TrimStart0x(_)
TrimStart0x(s) ==
    IF Len(s) >= 2 /\ s[1] = "0" /\ s[2] = "x"
    THEN TrimStart0x(SubSeq(s, 3, Len(s)))
    ELSE s

---------------------------------------------------------------------------
(* Key material: encode_decryption_key and decode_decryption_key.          *)

\* A faulty encoder that writes the nonce first.
encode_nonce_first(key, nonce) == HexEncode(nonce \o key)

encode_decryption_key(key, nonce) == HexEncode(key \o nonce)

NoKeyRes == [ok |-> FALSE, err |-> "", key |-> <<>>, nonce |-> <<>>]

\* A faulty decoder that only refuses input that is too short.
decode_accepting_longer(encoded) ==
    LET raw == HexDecode(TrimStart0x(encoded))
    IN  IF ~raw.ok THEN [NoKeyRes EXCEPT !.err = "decryption_key must be a hex string"]
        ELSE IF Len(raw.bytes) < KeyMaterialLen
             THEN [NoKeyRes EXCEPT !.err = "decryption_key must be 44 bytes"]
        ELSE [ok |-> TRUE, err |-> "",
              key |-> SubSeq(raw.bytes, 1, KeyLen),
              nonce |-> SubSeq(raw.bytes, KeyLen + 1, KeyLen + NonceLen)]

\* A faulty decoder whose nonce slice starts one byte early.
decode_nonce_off_by_one(encoded) ==
    LET raw == HexDecode(TrimStart0x(encoded))
    IN  IF ~raw.ok THEN [NoKeyRes EXCEPT !.err = "decryption_key must be a hex string"]
        ELSE IF Len(raw.bytes) # KeyMaterialLen
             THEN [NoKeyRes EXCEPT !.err = "decryption_key must be 44 bytes"]
        ELSE [ok |-> TRUE, err |-> "",
              key |-> SubSeq(raw.bytes, 1, KeyLen),
              nonce |-> SubSeq(raw.bytes, KeyLen, KeyLen + NonceLen - 1)]

decode_decryption_key(encoded) ==
    LET raw == HexDecode(TrimStart0x(encoded))
    IN  IF ~raw.ok THEN [NoKeyRes EXCEPT !.err = "decryption_key must be a hex string"]
        ELSE IF Len(raw.bytes) # KeyMaterialLen
             THEN [NoKeyRes EXCEPT !.err = "decryption_key must be 44 bytes"]
        ELSE [ok |-> TRUE, err |-> "",
              key |-> SubSeq(raw.bytes, 1, KeyLen),
              nonce |-> SubSeq(raw.bytes, KeyLen + 1, KeyLen + NonceLen)]

\* What OsRng.fill_bytes can leave in a key and in a nonce: pattern 1 is
\* constant (as in the unit tests), the later ones differ byte by byte.
KeyPattern(j)   == [i \in 1..KeyLen   |-> (7 * j + 13 * (j - 1) * i) % 256]
NoncePattern(j) == [i \in 1..NonceLen |-> (9 * j + 5 * (j - 1) * i) % 256]
Keys   == { KeyPattern(j)   : j \in 1..NumKeys }
Nonces == { NoncePattern(j) : j \in 1..NumNonces }

\* Key-material strings a user can pass that derive from a genuine one.
Variants(s) ==
    { s,
      <<"0", "x">> \o s,
      <<"0", "x", "0", "x">> \o s,
      SubSeq(s, 1, Len(s) - 2),
      SubSeq(s, 1, Len(s) - 1),
      s \o <<"0", "0">>,
      <<"0", "0">> \o s,
      [s EXCEPT ![1] = "g"],
      [s EXCEPT ![Len(s)] = "x"],
      [i \in 1..Len(s) |-> IF s[i] = "e" THEN "E" ELSE s[i]] }

ShortChars   == {"0", "x", "a", "g"}
ShortStrings == SeqsUpTo(ShortChars, MaxShortLen)

KmInit ==
    /\ kmPc = "start"
    /\ kmKey \in Keys
    /\ kmNonce \in Nonces
    /\ kmStr = <<>>
    /\ kmRes = NoKeyRes

KmIdle == kmPc = "start" /\ kmKey = KeyPattern(1) /\ kmNonce = NoncePattern(1)
          /\ kmStr = <<>> /\ kmRes = NoKeyRes

\* encrypt_and_store step 5: the key material is encoded for the output.
KmEncode ==
    /\ kmPc = "start"
    /\ KeyOnly
    /\ kmStr' = encode_decryption_key(kmKey, kmNonce)
    /\ kmPc' = "encoded"
    /\ UNCHANGED <<kmKey, kmNonce, kmRes>>

\* decrypt_blob step 2 on exactly the string that was reported.
KmDecodeReported ==
    /\ kmPc = "encoded"
    /\ KeyOnly
    /\ kmRes' = decode_decryption_key(kmStr)
    /\ kmPc' = "decoded"
    /\ UNCHANGED <<kmKey, kmNonce, kmStr>>

\* decrypt_blob step 2 on any other --decryption-key argument.
KmDecodeArgument ==
    /\ kmPc = "encoded"
    /\ KeyOnly
    /\ \E s \in Variants(kmStr) \cup ShortStrings :
          /\ kmStr' = s
          /\ kmRes' = decode_decryption_key(s)
    /\ kmPc' = "decodedArg"
    /\ UNCHANGED <<kmKey, kmNonce>>

KmNext == KmEncode \/ KmDecodeReported \/ KmDecodeArgument


---------------------------------------------------------------------------
(* Character codes (ASCII) of the characters the model uses.               *)

Digits  == <<"0","1","2","3","4","5","6","7","8","9">>
Lower   == <<"a","b","c","d","e","f","g","h","i","j","k","l","m",
             "n","o","p","q","r","s","t","u","v","w","x","y","z">>
Upper   == <<"A","B","C","D","E","F">>

CodeOf(c) ==
    IF \E i \in 1..26 : Lower[i] = c THEN 96 + (CHOOSE i \in 1..26 : Lower[i] = c)
    ELSE IF \E i \in 1..10 : Digits[i] = c THEN 47 + (CHOOSE i \in 1..10 : Digits[i] = c)
    ELSE IF \E i \in 1..6 : Upper[i] = c THEN 64 + (CHOOSE i \in 1..6 : Upper[i] = c)
    ELSE CASE c = " "  -> 32
           [] c = "\"" -> 34
           [] c = ","  -> 44
           [] c = ":"  -> 58
           [] c = "["  -> 91
           [] c = "\\" -> 92
           [] c = "]"  -> 93
           [] c = "{"  -> 123
           [] c = "}"  -> 125

Chars == Range(Lower) \cup Range(Digits) \cup Range(Upper)
         \cup {" ", "\"", ",", ":", "[", "\\", "]", "{", "}"}

Ascii == [c \in Chars |-> CodeOf(c)]

CharCode(c) == Ascii[c]

AsBytes(text) == [i \in 1..Len(text) |-> CharCode(text[i])]

\* Ord for String: byte-wise lexicographic, a proper prefix first.
RECURSIVE StrLeq(_, _)
StrLeq(s, t) ==
    IF s = <<>> THEN TRUE
    ELSE IF t = <<>> THEN FALSE
    ELSE IF Head(s) # Head(t) THEN CharCode(Head(s)) < CharCode(Head(t))
    ELSE StrLeq(Tail(s), Tail(t))

---------------------------------------------------------------------------
(* Sha256 (sha2 crate) stand-in: a deterministic digest of 32 bytes.  The  *)
(* model relies on nothing but its being a function of the bytes hashed.   *)

Sha256(bytes) ==
    LET s1 == SumSeq(bytes)
        s2 == WeightedSum(bytes)
    IN  [j \in 1..32 |-> (s1 * j + s2 + 31 * Len(bytes) + j) % 256]

compute_checksum(data) == HexEncode(Sha256(data))

---------------------------------------------------------------------------
(* hash_audit: tag parsing, canonical JSON (serde_json), record hash.      *)

\* str::split(','): the pieces between commas, empty pieces kept.
RECURSIVE SplitComma(_, _)
SplitComma(s, piece) ==
    IF s = <<>> THEN <<piece>>
    ELSE IF Head(s) = "," THEN <<piece>> \o SplitComma(Tail(s), <<>>)
    ELSE SplitComma(Tail(s), Append(piece, Head(s)))

\* str::trim: leading and trailing white space removed.
RECURSIVE TrimStart(_)
TrimStart(s) == IF s # <<>> /\ Head(s) = " " THEN TrimStart(Tail(s)) ELSE s

RECURSIVE TrimEnd(_)
TrimEnd(s) ==
    IF s # <<>> /\ s[Len(s)] = " " THEN TrimEnd(SubSeq(s, 1, Len(s) - 1)) ELSE s

Trim(s) == TrimEnd(TrimStart(s))

\* Iterator::filter(|s| !s.is_empty())
RECURSIVE DropEmpty(_)
DropEmpty(ss) ==
    IF ss = <<>> THEN <<>>
    ELSE IF Head(ss) = <<>> THEN DropEmpty(Tail(ss))
    ELSE <<Head(ss)>> \o DropEmpty(Tail(ss))

\* Vec::sort: ascending by Ord, equal elements kept.
RECURSIVE InsertSorted(_, _)
InsertSorted(x, ss) ==
    IF ss = <<>> THEN <<x>>
    ELSE IF StrLeq(x, Head(ss)) THEN <<x>> \o ss
    ELSE <<Head(ss)>> \o InsertSorted(x, Tail(ss))

RECURSIVE SortStrings(_)
SortStrings(ss) ==
    IF ss = <<>> THEN <<>> ELSE InsertSorted(Head(ss), SortStrings(Tail(ss)))

\* A faulty parser that forgets parsed_tags.sort().
parsed_tags_unsorted(tags) ==
    DropEmpty([i \in 1..Len(SplitComma(tags, <<>>)) |-> Trim(SplitComma(tags, <<>>)[i])])

parsed_tags(tags) ==
    LET pieces == SplitComma(tags, <<>>)
    IN  SortStrings(DropEmpty([i \in 1..Len(pieces) |-> Trim(pieces[i])]))

\* serde_json string: quoted, with the quote and the backslash escaped.
JsonString(s) ==
    <<"\"">> \o
    Flatten([i \in 1..Len(s) |->
                IF s[i] = "\"" THEN <<"\\", "\"">>
                ELSE IF s[i] = "\\" THEN <<"\\", "\\">>
                ELSE <<s[i]>>]) \o
    <<"\"">>

\* serde_json u8: decimal digits, no leading zero.
RECURSIVE JsonNumber(_)
JsonNumber(n) ==
    IF n < 10 THEN <<Digits[n + 1]>>
    ELSE JsonNumber(n \div 10) \o <<Digits[(n % 10) + 1]>>

JsonArray(ss) ==
    <<"[">> \o
    Flatten([i \in 1..Len(ss) |->
                (IF i > 1 THEN <<",">> ELSE <<>>) \o JsonString(ss[i])]) \o
    <<"]">>

JsonKey(name) == <<"\"">> \o name \o <<"\"", ":">>

\* serde_json::to_string(&CanonicalAuditRecord): fields in declaration order.
CanonicalJson(record) ==
    <<"{">> \o
    JsonKey(<<"a","c","t","i","o","n">>) \o JsonString(record.action) \o <<",">> \o
    JsonKey(<<"p","r","o","m","p","t">>) \o JsonString(record.prompt) \o <<",">> \o
    JsonKey(<<"s","c","o","r","e">>) \o JsonNumber(record.score) \o <<",">> \o
    JsonKey(<<"t","a","g","s">>) \o JsonArray(record.tags) \o <<",">> \o
    JsonKey(<<"d","e","c","i","s","i","o","n">>) \o JsonString(record.decision) \o <<",">> \o
    JsonKey(<<"r","e","a","s","o","n">>) \o JsonString(record.reason) \o <<",">> \o
    JsonKey(<<"t","i","m","e","s","t","a","m","p">>) \o JsonString(record.timestamp) \o
    <<"}">>

NoAuOut == [ok |-> FALSE, err |-> "", tags |-> <<>>, canonical |-> <<>>,
            record_hash |-> <<>>, signature |-> <<>>, public_key |-> <<>>]

\* hash_audit up to serde_json::to_string: the record and its canonical text.
canonical_record(a) ==
    [action |-> a.action, prompt |-> a.prompt, score |-> a.score,
     tags |-> parsed_tags(a.tags), decision |-> a.decision,
     reason |-> a.reason, timestamp |-> a.timestamp]

\* hash_audit from the canonical text on: "0x" and the digest in hex.
record_hash_of(canonical) == <<"0", "x">> \o HexEncode(Sha256(AsBytes(canonical)))

\* The whole of hash_audit: what it prints for its seven arguments.
hash_audit(a) ==
    LET record    == canonical_record(a)
        canonical == CanonicalJson(record)
    IN  [NoAuOut EXCEPT !.ok = TRUE,
                        !.tags = record.tags,
                        !.canonical = canonical,
                        !.record_hash = record_hash_of(canonical)]

---------------------------------------------------------------------------
(* sign_audit.  SigningKey / VerifyingKey (ed25519_dalek) stand-ins: the   *)
(* public key is a function of the seed, the signature a function of the   *)
(* seed and of the message bytes.                                          *)

verifying_key(seed) == [i \in 1..32 |-> (3 * seed[i] + i) % 256]

sign(seed, msg) ==
    LET m == SumSeq(msg) + 7 * WeightedSum(msg) + 11 * Len(msg)
    IN  [j \in 1..64 |-> (seed[((j - 1) % SeedLen) + 1] + m * j + j) % 256]

\* A faulty signer that signs the hex text instead of the decoded bytes.
sign_audit_over_text(record_hash, private_key_hex) ==
    LET h  == HexDecode(TrimStart0x(record_hash))
        sk == HexDecode(TrimStart0x(private_key_hex))
    IN  IF ~h.ok THEN [NoAuOut EXCEPT !.err = "record_hash must be a hex string"]
        ELSE IF ~sk.ok THEN [NoAuOut EXCEPT !.err = "private_key must be hex"]
        ELSE IF Len(sk.bytes) # SeedLen
             THEN [NoAuOut EXCEPT !.err = "private_key must be 32 bytes"]
        ELSE [NoAuOut EXCEPT !.ok = TRUE,
                             !.record_hash = record_hash,
                             !.signature = HexEncode(sign(sk.bytes, AsBytes(TrimStart0x(record_hash)))),
                             !.public_key = HexEncode(verifying_key(sk.bytes))]

\* The whole of sign_audit: the error it returns or what it prints.
sign_audit(record_hash, private_key_hex) ==
    LET h  == HexDecode(TrimStart0x(record_hash))
        sk == HexDecode(TrimStart0x(private_key_hex))
    IN  IF ~h.ok THEN [NoAuOut EXCEPT !.err = "record_hash must be a hex string"]
        ELSE IF ~sk.ok THEN [NoAuOut EXCEPT !.err = "private_key must be hex"]
        ELSE IF Len(sk.bytes) # SeedLen
             THEN [NoAuOut EXCEPT !.err = "private_key must be 32 bytes"]
        ELSE [NoAuOut EXCEPT !.ok = TRUE,
                             !.record_hash = record_hash,
                             !.signature = HexEncode(sign(sk.bytes, h.bytes)),
                             !.public_key = HexEncode(verifying_key(sk.bytes))]

\* Arguments the audit commands are run with.
TagChars  == {"a", "b", ",", " "}
TagInputs == SeqsUpTo(TagChars, MaxTagsLen)

OtherFields ==
    { [action |-> <<"a">>, prompt |-> <<>>, score |-> 0, decision |-> <<"o","k">>,
       reason |-> <<>>, timestamp |-> <<"1">>],
      [action |-> <<"a">>, prompt |-> <<"\"", "b">>, score |-> 255, decision |-> <<"n","o">>,
       reason |-> <<"a", "\\", ",">>, timestamp |-> <<"1", "0">>],
      [action |-> <<"b", " ">>, prompt |-> <<"a", ",", "b">>, score |-> 70, decision |-> <<>>,
       reason |-> <<" ">>, timestamp |-> <<>>] }

HashChars  == {"0", "x", "a", "A"}
HashInputs == SeqsUpTo(HashChars, MaxHashLen)

SeedPattern(j) == [i \in 1..SeedLen |-> (11 * j + 29 * (j - 1) * i) % 256]
SeedInputs == UNION { Variants(HexEncode(SeedPattern(j))) : j \in 1..NumKeys }

NoAuArgs == [command |-> "", action |-> <<>>, prompt |-> <<>>, score |-> 0, tags |-> <<>>,
             decision |-> <<>>, reason |-> <<>>, timestamp |-> <<>>,
             record_hash |-> <<>>, private_key |-> <<>>]

AuInit == auPc = "idle" /\ auArgs = NoAuArgs /\ auOut = NoAuOut

\* main -> Commands::HashAudit
HashAudit ==
    /\ auPc = "idle"
    /\ AuditOnly
    /\ \E f \in OtherFields, t \in TagInputs :
          LET a == [NoAuArgs EXCEPT !.command = "hash-audit",
                                    !.action = f.action, !.prompt = f.prompt,
                                    !.score = f.score, !.tags = t,
                                    !.decision = f.decision, !.reason = f.reason,
                                    !.timestamp = f.timestamp]
          IN  /\ auArgs' = a
              /\ auOut' = hash_audit(a)
    /\ auPc' = "exited"

\* main -> Commands::SignAudit
SignAudit ==
    /\ auPc = "idle"
    /\ AuditOnly
    /\ \E h \in HashInputs, k \in SeedInputs :
          /\ auArgs' = [NoAuArgs EXCEPT !.command = "sign-audit",
                                        !.record_hash = h, !.private_key = k]
          /\ auOut' = sign_audit(h, k)
    /\ auPc' = "exited"

AuNext == HashAudit \/ SignAudit


---------------------------------------------------------------------------
(* Aes256Gcm (aes_gcm crate) stand-in: a keyed stream added byte by byte   *)
(* and a 16-byte tag over key, nonce and ciphertext body, appended.        *)
(* Decryption recomputes the tag and returns the plaintext only if it is   *)
(* the one received.                                                       *)

KeyStream(key, nonce, i) ==
    (key[((i - 1) % KeyLen) + 1] + 3 * nonce[((i - 1) % NonceLen) + 1] + 17 * i) % 256

AeadTag(key, nonce, body) ==
    LET m == SumSeq(body) + WeightedSum(body) + Len(body)
    IN  [j \in 1..TagLen |->
            (key[j] + 5 * key[j + TagLen] + nonce[((j - 1) % NonceLen) + 1] + m * j) % 256]

AeadEncrypt(key, nonce, pt) ==
    LET body == [i \in 1..Len(pt) |-> (pt[i] + KeyStream(key, nonce, i)) % 256]
    IN  body \o AeadTag(key, nonce, body)

NoPlain == [ok |-> FALSE, bytes |-> <<>>]

AeadDecrypt(key, nonce, ct) ==
    IF Len(ct) < TagLen THEN NoPlain
    ELSE LET body == SubSeq(ct, 1, Len(ct) - TagLen)
             tag  == SubSeq(ct, Len(ct) - TagLen + 1, Len(ct))
         IN  IF tag # AeadTag(key, nonce, body) THEN NoPlain
             ELSE [ok |-> TRUE,
                   bytes |-> [i \in 1..Len(body) |->
                                 (body[i] + 256 - KeyStream(key, nonce, i)) % 256]]

\* encrypt_data: a fresh key and nonce from OsRng (draw j), then encrypt.
encrypt_data(pt, j) ==
    LET key   == KeyPattern(j)
        nonce == NoncePattern(((j - 1) % NumNonces) + 1)
    IN  [ciphertext |-> AeadEncrypt(key, nonce, pt), key |-> key, nonce |-> nonce]

---------------------------------------------------------------------------
(* The blob service and the requests of upload_to_walrus_async and         *)
(* download_from_walrus_async.                                             *)

StorePath == <<"v1", "store">>

\* download_from_walrus_async: the candidate urls, in order.
candidates(blob_id) == << <<"v1", blob_id>>, <<"v1", "blobs", blob_id>> >>

\* WalrusResponse::get_blob_id (0 stands for None).
get_blob_id(resp) ==
    IF resp.newly_created # 0 THEN resp.newly_created
    ELSE IF resp.already_certified # 0 THEN resp.already_certified
    ELSE 0

BlobIndex(bytes) == CHOOSE i \in 1..Len(store) : store[i] = bytes

Tampered(bytes) ==
    IF bytes = <<>> THEN <<0>> ELSE [bytes EXCEPT ![1] = (bytes[1] + 1) % 256]

---------------------------------------------------------------------------
(* The vault commands.                                                     *)

\* File contents: for each length one file, of differing bytes.
FilePattern(n) == [i \in 1..n |-> (256 - i) % 256]
Files == { FilePattern(n) : n \in 0..MaxPlainLen }

NoCmd     == [name |-> "", file |-> <<>>, readable |-> FALSE, blob_id |-> 0,
              decryption_key |-> <<>>]
NoOutput  == [printed |-> FALSE, blob_id |-> 0, decryption_key |-> <<>>,
              checksum |-> <<>>, original_size |-> 0, encrypted_size |-> 0]
NoFile    == [written |-> FALSE, bytes |-> <<>>]
NoKey     == [set |-> FALSE, key |-> <<>>, nonce |-> <<>>]
Running   == [status |-> "running", detail |-> <<>>]
Failed(status, detail) == [status |-> status, detail |-> detail]

\* --decryption-key arguments: what encrypt-and-store can report, a key with
\* another nonce, and malformed ones.
KeyArgs ==
    { encode_decryption_key(KeyPattern(j), NoncePattern(((j - 1) % NumNonces) + 1)) :
         j \in 1..NumKeys }
    \cup { encode_decryption_key(KeyPattern(1), NoncePattern(2)), <<>>, <<"z", "z">> }
    \cup { v \in Variants(encode_decryption_key(KeyPattern(1), NoncePattern(1))) :
              Len(v) # 2 * KeyMaterialLen \/ v[1] = "g" }

BlobIds == 1..(MaxBlobs + 1)

VaultInit ==
    /\ pc = "idle"
    /\ cmd = NoCmd
    /\ plaintext = <<>>
    /\ keyNonce = NoKey
    /\ ciphertext = <<>>
    /\ reqs = <<>>
    /\ lastErr = <<>>
    /\ exit = Running
    /\ stdout = NoOutput
    /\ outFile = NoFile
    /\ store = <<>>
    /\ reported = {}
    /\ genuine = FALSE
    /\ blobId = 0

\* The process ends: nothing of the invocation is left but the blob service
\* and what the caller kept of the outputs.
ProcessExit ==
    /\ pc = "exited"
    /\ VaultOnly
    /\ pc' = "idle"
    /\ cmd' = NoCmd
    /\ plaintext' = <<>>
    /\ keyNonce' = NoKey
    /\ ciphertext' = <<>>
    /\ reqs' = <<>>
    /\ lastErr' = <<>>
    /\ exit' = Running
    /\ stdout' = NoOutput
    /\ outFile' = NoFile
    /\ genuine' = FALSE
    /\ blobId' = 0
    /\ UNCHANGED <<store, reported>>

\* main -> Commands::EncryptAndStore
StartEncrypt ==
    /\ pc = "idle"
    /\ VaultOnly
    /\ \E f \in Files, r \in BOOLEAN :
          /\ (~r => f = <<>>)
          /\ cmd' = [NoCmd EXCEPT !.name = "encrypt-and-store", !.file = f, !.readable = r]
    /\ pc' = "e_read"
    /\ UNCHANGED <<plaintext, keyNonce, ciphertext, reqs, lastErr, exit, stdout, outFile,
                   store, reported, genuine, blobId>>

\* A faulty step 1 that forgets the empty-file check.
EncryptReadNoEmptyCheck ==
    /\ pc = "e_read"
    /\ VaultOnly
    /\ IF ~cmd.readable
       THEN /\ exit' = Failed("read_error", <<>>)
            /\ pc' = "exited"
            /\ UNCHANGED plaintext
       ELSE /\ plaintext' = cmd.file
            /\ pc' = "e_encrypt"
            /\ UNCHANGED exit
    /\ UNCHANGED <<cmd, keyNonce, ciphertext, reqs, lastErr, stdout, outFile, store,
                   reported, genuine, blobId>>

\* encrypt_and_store step 1: fs::read, then the empty-file check.
EncryptRead ==
    /\ pc = "e_read"
    /\ VaultOnly
    /\ IF ~cmd.readable
       THEN /\ exit' = Failed("read_error", <<>>)
            /\ pc' = "exited"
            /\ UNCHANGED plaintext
       ELSE IF cmd.file = <<>>
       THEN /\ exit' = Failed("file_empty", <<>>)
            /\ pc' = "exited"
            /\ plaintext' = cmd.file
       ELSE /\ plaintext' = cmd.file
            /\ pc' = "e_encrypt"
            /\ UNCHANGED exit
    /\ UNCHANGED <<cmd, keyNonce, ciphertext, reqs, lastErr, stdout, outFile, store,
                   reported, genuine, blobId>>

\* encrypt_and_store steps 2 and 3: compute_checksum and encrypt_data.
EncryptData ==
    /\ pc = "e_encrypt"
    /\ VaultOnly
    /\ \E j \in 1..NumKeys :
          LET e == encrypt_data(plaintext, j)
          IN  /\ ciphertext' = e.ciphertext
              /\ keyNonce' = [set |-> TRUE, key |-> e.key, nonce |-> e.nonce]
    /\ pc' = "e_upload"
    /\ UNCHANGED <<cmd, plaintext, reqs, lastErr, exit, stdout, outFile, store,
                   reported, genuine, blobId>>

\* encrypt_and_store step 4: upload_to_walrus_async, one PUT and its answer.
Upload ==
    /\ pc = "e_upload"
    /\ VaultOnly
    /\ \E outcome \in {"send_error", "status", "bad_json", "no_id", "created", "certified"} :
          /\ reqs' = Append(reqs, [method |-> "PUT", path |-> StorePath, outcome |-> outcome])
          /\ CASE outcome = "send_error" ->
                    /\ exit' = Failed("upload_send", <<>>)
                    /\ UNCHANGED <<store, blobId>>
               [] outcome = "status" ->
                    /\ exit' = Failed("upload_status", <<>>)
                    /\ UNCHANGED <<store, blobId>>
               [] outcome = "bad_json" ->
                    /\ exit' = Failed("upload_parse", <<>>)
                    /\ UNCHANGED <<store, blobId>>
               [] outcome = "no_id" ->
                    /\ get_blob_id([newly_created |-> 0, already_certified |-> 0]) = 0
                    /\ exit' = Failed("upload_no_id", <<>>)
                    /\ UNCHANGED <<store, blobId>>
               [] outcome = "created" ->
                    /\ ciphertext \notin Range(store)
                    /\ Len(store) < MaxBlobs
                    /\ store' = Append(store, ciphertext)
                    /\ blobId' = get_blob_id([newly_created |-> Len(store) + 1,
                                              already_certified |-> 0])
                    /\ UNCHANGED exit
               [] outcome = "certified" ->
                    /\ ciphertext \in Range(store)
                    /\ blobId' = get_blob_id([newly_created |-> 0,
                                              already_certified |-> BlobIndex(ciphertext)])
                    /\ UNCHANGED <<store, exit>>
          /\ pc' = IF outcome \in {"created", "certified"} THEN "e_output" ELSE "exited"
    /\ UNCHANGED <<cmd, plaintext, keyNonce, ciphertext, lastErr, stdout, outFile,
                   reported, genuine>>

\* encrypt_and_store step 5: the EncryptionOutput is printed.
EncryptOutput ==
    /\ pc = "e_output"
    /\ VaultOnly
    /\ LET out == [printed |-> TRUE,
                   blob_id |-> blobId,
                   decryption_key |-> encode_decryption_key(keyNonce.key, keyNonce.nonce),
                   checksum |-> compute_checksum(plaintext),
                   original_size |-> Len(plaintext),
                   encrypted_size |-> Len(ciphertext)]
       IN  /\ stdout' = out
           /\ reported' = reported \cup
                 { [blob_id |-> out.blob_id, decryption_key |-> out.decryption_key,
                    plain |-> plaintext] }
    /\ exit' = Failed("ok", <<>>)
    /\ pc' = "exited"
    /\ UNCHANGED <<cmd, plaintext, keyNonce, ciphertext, reqs, lastErr, outFile, store,
                   genuine, blobId>>

\* main -> Commands::Decrypt
StartDecrypt ==
    /\ pc = "idle"
    /\ VaultOnly
    /\ \E b \in BlobIds, k \in KeyArgs :
          cmd' = [NoCmd EXCEPT !.name = "decrypt", !.blob_id = b, !.decryption_key = k]
    /\ pc' = "d_download"
    /\ UNCHANGED <<plaintext, keyNonce, ciphertext, reqs, lastErr, exit, stdout, outFile,
                   store, reported, genuine, blobId>>

\* decrypt_blob step 1: one turn of the loop of download_from_walrus_async,
\* and the bail! after the loop when that was the last candidate.
Download ==
    /\ pc = "d_download"
    /\ VaultOnly
    /\ LET i   == Len(reqs) + 1
           url == candidates(cmd.blob_id)[i]
       IN  \E outcome \in {"ok", "ok_other_bytes", "body_error", "status", "send_error"} :
             /\ reqs' = Append(reqs, [method |-> "GET", path |-> url, outcome |-> outcome])
             /\ CASE outcome \in {"ok", "ok_other_bytes"} ->
                       /\ cmd.blob_id \in 1..Len(store)
                       /\ ciphertext' = IF outcome = "ok" THEN store[cmd.blob_id]
                                        ELSE Tampered(store[cmd.blob_id])
                       /\ genuine' = (outcome = "ok")
                       /\ pc' = "d_decode"
                       /\ UNCHANGED <<lastErr, exit>>
                  [] outcome = "body_error" ->
                       /\ exit' = Failed("download_body", <<url>>)
                       /\ pc' = "exited"
                       /\ UNCHANGED <<ciphertext, genuine, lastErr>>
                  [] outcome \in {"status", "send_error"} ->
                       /\ lastErr' = <<url, outcome>>
                       /\ IF i = Len(candidates(cmd.blob_id))
                          THEN /\ exit' = Failed("download_failed", lastErr')
                               /\ pc' = "exited"
                          ELSE UNCHANGED <<exit, pc>>
                       /\ UNCHANGED <<ciphertext, genuine>>
    /\ UNCHANGED <<cmd, plaintext, keyNonce, stdout, outFile, store, reported, blobId>>

\* decrypt_blob step 2: decode_decryption_key.
DecodeKey ==
    /\ pc = "d_decode"
    /\ VaultOnly
    /\ LET res == decode_decryption_key(cmd.decryption_key)
       IN  IF res.ok
           THEN /\ keyNonce' = [set |-> TRUE, key |-> res.key, nonce |-> res.nonce]
                /\ pc' = "d_decrypt"
                /\ UNCHANGED exit
           ELSE /\ exit' = Failed("key_format", <<>>)
                /\ pc' = "exited"
                /\ UNCHANGED keyNonce
    /\ UNCHANGED <<cmd, plaintext, ciphertext, reqs, lastErr, stdout, outFile, store,
                   reported, genuine, blobId>>

\* decrypt_blob step 3: cipher.decrypt.
Decrypt ==
    /\ pc = "d_decrypt"
    /\ VaultOnly
    /\ LET res == AeadDecrypt(keyNonce.key, keyNonce.nonce, ciphertext)
       IN  IF res.ok
           THEN /\ plaintext' = res.bytes
                /\ pc' = "d_write"
                /\ UNCHANGED exit
           ELSE /\ exit' = Failed("decryption_failed", <<>>)
                /\ pc' = "exited"
                /\ UNCHANGED plaintext
    /\ UNCHANGED <<cmd, keyNonce, ciphertext, reqs, lastErr, stdout, outFile, store,
                   reported, genuine, blobId>>

\* decrypt_blob step 4: fs::write(output, &plaintext), that is File::create
\* and write_all.  It returns Ok with the whole plaintext in the file, or Err
\* either before anything is written or after a part has been written.
WriteOutput ==
    /\ pc = "d_write"
    /\ VaultOnly
    /\ \/ /\ outFile' = [written |-> TRUE, bytes |-> plaintext]
          /\ exit' = Failed("ok", <<>>)
       \/ /\ \E n \in 0..(Len(plaintext) - 1) :
                outFile' = [written |-> FALSE, bytes |-> SubSeq(plaintext, 1, n)]
          /\ exit' = Failed("write_error", <<>>)
    /\ pc' = "exited"
    /\ UNCHANGED <<cmd, plaintext, keyNonce, ciphertext, reqs, lastErr, stdout, store,
                   reported, genuine, blobId>>

VaultNext ==
    \/ StartEncrypt \/ EncryptRead \/ EncryptData \/ Upload \/ EncryptOutput
    \/ StartDecrypt \/ Download \/ DecodeKey \/ Decrypt \/ WriteOutput
    \/ ProcessExit

---------------------------------------------------------------------------
(* The specifications.                                                     *)

Init == VaultInit /\ KmIdle /\ AuInit
Next == VaultNext
Spec == Init /\ [][Next]_vars

InitKey == KmInit /\ VaultInit /\ AuInit
NextKey == KmNext
SpecKey == InitKey /\ [][NextKey]_vars

InitAudit == AuInit /\ VaultInit /\ KmIdle
NextAudit == AuNext
SpecAudit == InitAudit /\ [][NextAudit]_vars


---------------------------------------------------------------------------
(* Notions the properties are stated with, defined on the text itself and  *)
(* not through the operators that model the program.                       *)

HexDigitCodes == (48..57) \cup (65..70) \cup (97..102)

IsHexText(s) == Len(s) % 2 = 0 /\ \A i \in 1..Len(s) : CharCode(s[i]) \in HexDigitCodes

NibbleOf(c) ==
    LET n == CharCode(c)
    IN  IF n <= 57 THEN n - 48 ELSE IF n <= 70 THEN n - 55 ELSE n - 87

BytesOfHexText(s) ==
    [i \in 1..(Len(s) \div 2) |-> 16 * NibbleOf(s[2 * i - 1]) + NibbleOf(s[2 * i])]

\* s without one leading "0x", if it has one.
WithoutOne0x(s) ==
    IF Len(s) >= 2 /\ SubSeq(s, 1, 2) = <<"0", "x">> THEN SubSeq(s, 3, Len(s)) ELSE s

\* s without all of its leading "0x"s.
WithoutAll0x(s) ==
    LET n == CHOOSE k \in 0..(Len(s) \div 2) :
                /\ \A i \in 1..k : s[2 * i - 1] = "0" /\ s[2 * i] = "x"
                /\ ~(Len(s) >= 2 * k + 2 /\ s[2 * k + 1] = "0" /\ s[2 * k + 2] = "x")
    IN  SubSeq(s, 2 * n + 1, Len(s))

\* Key material in the strict sense: 88 hexadecimal digits.
StrictKeyMaterial(s) == IsHexText(s) /\ Len(s) = 88

\* Key material the program decodes: 88 hexadecimal digits after any "0x"s.
LenientKeyMaterial(s) == StrictKeyMaterial(WithoutAll0x(s))

\* The comma-separated elements of a --tags argument, trimmed, blanks dropped,
\* as a multiset (tag -> number of occurrences) and as a set.
ElementStarts(s) == {0} \cup { i \in 1..Len(s) : s[i] = "," }

ElementAt(s, p) ==
    LET q  == CHOOSE e \in (p + 1)..(Len(s) + 1) :
                 /\ (e = Len(s) + 1 \/ s[e] = ",")
                 /\ \A m \in (p + 1)..(e - 1) : s[m] # ","
        ink == { m \in (p + 1)..(q - 1) : s[m] # " " }
    IN  IF ink = {} THEN <<>>
        ELSE SubSeq(s, CHOOSE m \in ink : \A o \in ink : m <= o,
                       CHOOSE m \in ink : \A o \in ink : m >= o)

TagSetOf(s) == { ElementAt(s, p) : p \in ElementStarts(s) } \ { <<>> }

TagBagOf(s) ==
    [t \in TagSetOf(s) |-> Cardinality({ p \in ElementStarts(s) : ElementAt(s, p) = t })]

\* Every --tags argument with its multiset and its set of tags.
TagTable == { <<t, TagBagOf(t), TagSetOf(t)>> : t \in TagInputs }

\* The --tags arguments with the same multiset (the same set) of tags as s.
SameBagAs(s) == LET mine == TagBagOf(s) IN { e[1] : e \in { x \in TagTable : x[2] = mine } }
SameSetAs(s) == LET mine == TagSetOf(s) IN { e[1] : e \in { x \in TagTable : x[3] = mine } }

IsHashAudit == auPc = "exited" /\ auArgs.command = "hash-audit"
IsSignAudit == auPc = "exited" /\ auArgs.command = "sign-audit"
IsEncrypt   == cmd.name = "encrypt-and-store"
IsDecrypt   == cmd.name = "decrypt"
Errored     == exit.status \notin {"running", "ok"}

---------------------------------------------------------------------------
(* C7.  Key material round trip: for every key and nonce the encoded key   *)
(* material is an 88-character hexadecimal string, and decoding it         *)
(* succeeds and returns exactly that key and that nonce.                   *)

C8_OnlyStrictHexAccepted ==
    kmPc \in {"decoded", "decodedArg"} => (kmRes.ok => StrictKeyMaterial(kmStr))

(* C8 amended.  Decoding first removes every leading "0x"; it succeeds     *)
(* exactly when the rest is valid hexadecimal of exactly 44 bytes, and     *)
(* then returns the first 32 bytes as key and the last 12 as nonce, never  *)
(* a truncated or padded input; otherwise it fails and returns nothing.    *)

C8_DecodeRejectsMalformed ==
    kmPc \in {"decoded", "decodedArg"} =>
        /\ kmRes.ok <=> LenientKeyMaterial(kmStr)
        /\ kmRes.ok =>
              /\ kmRes.key \o kmRes.nonce = BytesOfHexText(WithoutAll0x(kmStr))
              /\ Len(kmRes.key) = 32
              /\ Len(kmRes.nonce) = 12
        /\ ~kmRes.ok => kmRes.err # "" /\ kmRes.key = <<>> /\ kmRes.nonce = <<>>

C8_Witness ==
    /\ kmPc = "decodedArg"
    /\ ~kmRes.ok
    /\ IsHexText(kmStr)
    /\ Len(kmStr) = 86

---------------------------------------------------------------------------
(* C5.  Canonicalization does not depend on the order of the tags or on    *)
(* white space around them: two --tags arguments with the same multiset of *)
(* trimmed, non-blank elements give, with the same other six fields, the   *)
(* same canonical bytes and the same record hash.                          *)

C5_TagOrderIndependent ==
    IsHashAudit =>
        /\ \A t \in SameBagAs(auArgs.tags) :
              CanonicalJson(canonical_record([auArgs EXCEPT !.tags = t])) = auOut.canonical
        /\ auOut.record_hash = <<"0", "x">> \o HexEncode(Sha256(AsBytes(auOut.canonical)))

C5_Witness ==
    /\ IsHashAudit
    /\ auArgs.tags = <<"b", ",", "a">>
    /\ auArgs.score = 255
    /\ auOut.tags = << <<"a">>, <<"b">> >>
    /\ auOut.canonical =
          CanonicalJson(canonical_record([auArgs EXCEPT !.tags = <<"a", ",", " ", "b">>]))

(* C6 as stated.  The tags of the canonical record form a set: no          *)
(* duplicate and no blank element, so two --tags arguments that differ     *)
(* only by repeating a tag give the same record and the same hash.         *)

C6_TagsFormASet ==
    IsHashAudit =>
        /\ \A i, j \in 1..Len(auOut.tags) : i # j => auOut.tags[i] # auOut.tags[j]
        /\ \A i \in 1..Len(auOut.tags) : auOut.tags[i] # <<>>
        /\ \A t \in SameSetAs(auArgs.tags) :
              CanonicalJson(canonical_record([auArgs EXCEPT !.tags = t])) = auOut.canonical

(* C10 as stated.  sign-audit prints a signature and public key only if    *)
(* the hash, after stripping an optional 0x prefix, is valid hexadecimal   *)
(* and the seed decodes to exactly 32 bytes.                               *)

C10_OnlyOptionalPrefix ==
    IsSignAudit =>
        (auOut.ok =>
            /\ IsHexText(WithoutOne0x(auArgs.record_hash))
            /\ IsHexText(auArgs.private_key)
            /\ Len(auArgs.private_key) = 64)

(* C10 amended.  sign-audit removes every leading "0x" of the hash and of  *)
(* the seed; it prints a signature and public key exactly when the rest of *)
(* the hash is valid hexadecimal and the rest of the seed is valid         *)
(* hexadecimal of exactly 32 bytes, and otherwise fails and prints         *)
(* nothing.  The signature is over the decoded hash bytes, not the text,   *)
(* the public key is that of the seed, the hash is echoed as given.        *)

C10_SignAuditValidation ==
    IsSignAudit =>
        LET h  == WithoutAll0x(auArgs.record_hash)
            sk == WithoutAll0x(auArgs.private_key)
        IN  /\ auOut.ok <=> (IsHexText(h) /\ IsHexText(sk) /\ Len(sk) = 64)
            /\ ~auOut.ok =>
                  /\ auOut.err # ""
                  /\ auOut.signature = <<>>
                  /\ auOut.public_key = <<>>
                  /\ auOut.record_hash = <<>>
            /\ auOut.ok =>
                  /\ auOut.record_hash = auArgs.record_hash
                  /\ IsHexText(auOut.signature) /\ Len(auOut.signature) = 128
                  /\ BytesOfHexText(auOut.signature)
                        = sign(BytesOfHexText(sk), BytesOfHexText(h))
                  /\ BytesOfHexText(auOut.public_key) = verifying_key(BytesOfHexText(sk))

C10_Witness ==
    /\ IsSignAudit
    /\ auOut.ok
    /\ auArgs.record_hash = <<"0", "x", "a", "A">>
    /\ SubSeq(auArgs.private_key, 1, 4) = <<"0", "x", "0", "x">>

---------------------------------------------------------------------------
(* C1.  End-to-end round trip: when decrypt is run with a blob identifier  *)
(* and decryption key that an earlier encrypt-and-store reported, and the  *)
(* service returned the bytes it was given, then neither key decoding nor  *)
(* authenticated decryption fails, and the output written equals the       *)
(* original plaintext byte for byte.                                       *)

ReportsOfCommand ==
    { r \in reported : r.blob_id = cmd.blob_id /\ r.decryption_key = cmd.decryption_key }

C1_RoundTrip ==
    (IsDecrypt /\ genuine) =>
        \A r \in ReportsOfCommand :
            /\ exit.status \notin {"key_format", "decryption_failed"}
            /\ pc = "d_write" => plaintext = r.plain
            /\ outFile.written => outFile.bytes = r.plain
            /\ exit.status = "ok" => outFile.written

C1_Witness ==
    /\ IsDecrypt
    /\ genuine
    /\ ReportsOfCommand # {}
    /\ exit.status = "ok"
    /\ outFile.bytes = <<255, 254>>
    /\ Len(reqs) = 2

(* C2 as stated.  No operation partially completes: the success output is  *)
(* printed only after the upload has returned a blob identifier; the       *)
(* output file is written only after key decoding and tag verification     *)
(* have both succeeded; an invocation that fails at any step has printed   *)
(* no success output and written no plaintext, whole or partial.           *)

TagVerifies(key, nonce, ct) ==
    /\ Len(ct) >= 16
    /\ SubSeq(ct, Len(ct) - 15, Len(ct)) = AeadTag(key, nonce, SubSeq(ct, 1, Len(ct) - 16))

OutputOnlyAfterUpload ==
    stdout.printed =>
        /\ IsEncrypt
        /\ reqs # <<>>
        /\ reqs[Len(reqs)].outcome \in {"created", "certified"}
        /\ stdout.blob_id = blobId
        /\ blobId \in 1..Len(store)
        /\ store[blobId] = ciphertext

PlaintextOnlyAfterVerification ==
    (IsDecrypt /\ (plaintext # <<>> \/ outFile.bytes # <<>> \/ outFile.written)) =>
        /\ LenientKeyMaterial(cmd.decryption_key)
        /\ keyNonce.set
        /\ keyNonce.key \o keyNonce.nonce = BytesOfHexText(WithoutAll0x(cmd.decryption_key))
        /\ TagVerifies(keyNonce.key, keyNonce.nonce, ciphertext)

FailureLeavesNothing ==
    Errored => ~stdout.printed /\ ~outFile.written /\ outFile.bytes = <<>>

C2_NoPartialCompletion ==
    /\ OutputOnlyAfterUpload
    /\ PlaintextOnlyAfterVerification
    /\ FailureLeavesNothing

(* C3 as stated.  Upload fallback: when the put request to the first store *)
(* path fails (network error or non-success status), the upload tries at   *)
(* least one other path before it reports the failure.                     *)

C3_UploadTriesAlternatePath ==
    (IsEncrypt /\ exit.status \in {"upload_send", "upload_status"}) =>
        Cardinality({ reqs[i].path : i \in 1..Len(reqs) }) >= 2

(* C4 as stated.  Download fallback: the two candidate paths are tried in  *)
(* a fixed order, each at most once; the first that succeeds ends the      *)
(* search; the download fails only after both have been tried and have     *)
(* failed, with the detail of the last failed attempt.                     *)

C4_DownloadFallback ==
    IsDecrypt =>
        /\ Len(reqs) <= 2
        /\ \A i \in 1..Len(reqs) :
              /\ reqs[i].method = "GET"
              /\ reqs[i].path = IF i = 1 THEN <<"v1", cmd.blob_id>>
                                ELSE <<"v1", "blobs", cmd.blob_id>>
        /\ \A i \in 1..(Len(reqs) - 1) : reqs[i].outcome \in {"status", "send_error", "body_error"}
        /\ exit.status \in {"download_failed", "download_body"} =>
              /\ Len(reqs) = 2
              /\ \A i \in 1..2 : reqs[i].outcome \in {"status", "send_error", "body_error"}
        /\ exit.status = "download_failed" =>
              exit.detail = <<reqs[Len(reqs)].path, reqs[Len(reqs)].outcome>>

(* C9 as stated.  Input errors are reported before anything else is done:  *)
(* encrypt-and-store on an empty file fails before any encryption or       *)
(* request, and decrypt with malformed key material fails before any       *)
(* request to the blob service.                                            *)

C9_InputErrorsBeforeAnyRequest ==
    /\ (IsEncrypt /\ cmd.readable /\ cmd.file = <<>>) =>
          reqs = <<>> /\ ~keyNonce.set /\ ciphertext = <<>>
    /\ (IsDecrypt /\ ~LenientKeyMaterial(cmd.decryption_key)) => reqs = <<>>

(* C9 amended.  encrypt-and-store on an empty file fails before any        *)
(* encryption or request.  decrypt with malformed key material downloads   *)
(* the blob first: it fails with the key-format error right after a        *)
(* successful download (or with the transport error if the download        *)
(* fails), without decrypting, writing or sending a further request.       *)

C9_InputErrorsWithoutRetry ==
    /\ (IsEncrypt /\ cmd.readable /\ cmd.file = <<>>) =>
          /\ pc \in {"e_read", "exited"}
          /\ reqs = <<>> /\ ~keyNonce.set /\ ciphertext = <<>>
          /\ pc = "exited" => exit.status = "file_empty"
    /\ (IsDecrypt /\ ~LenientKeyMaterial(cmd.decryption_key)) =>
          /\ pc \in {"d_download", "d_decode", "exited"}
          /\ ~keyNonce.set /\ plaintext = <<>> /\ outFile = NoFile
          /\ exit.status \in {"running", "key_format", "download_failed", "download_body"}
          /\ \A i \in 1..Len(reqs) : reqs[i].method = "GET"
          /\ pc = "d_decode" => exit.status = "running"
          /\ exit.status = "key_format" =>
                /\ reqs # <<>>
                /\ reqs[Len(reqs)].outcome \in {"ok", "ok_other_bytes"}
                /\ ciphertext # <<>>

C9_Witness ==
    /\ IsDecrypt
    /\ exit.status = "key_format"
    /\ Len(cmd.decryption_key) = 86
    /\ Len(reqs) = 2

=============================================================================
